---- MODULE Spec2Model ----
(***************************************************************************)
(* Model of the engagement simulator of probabilityCalculator.js:          *)
(* simulateRangedExchangeUntilMelee and the functions it calls.            *)
(*                                                                         *)
(* JavaScript objects are references, so the unit records live in `heap`   *)
(* and the parameters and the clones are references into it.  Every        *)
(* Math.random() die is a free choice in 1..6; a batch of dice is the set  *)
(* of results the loop over the dice can produce.                          *)
(***************************************************************************)
EXTENDS Integers, Sequences, FiniteSets, TLC

VARIABLES input, startingDistance, attackerFirst,
          heap, attacker, defender,
          currentDistance, turn, log,
          pc, slot, chargeOccurred, loser, meleeResult,
          call

vars == <<input, startingDistance, attackerFirst, heap, attacker, defender,
          currentDistance, turn, log, pc, slot, chargeOccurred, loser, meleeResult,
          call>>

(* ---------------------------- bounds ----------------------------------- *)

\* Largest model count of an input unit.
MaxModels == 3

\* Model count of the two units of the rifle scenario.
ScenarioModels == 5

\* getSuccessChance is applied to the targets -MaxTarget..MaxTarget.
MaxTarget == 12

(* ------------------------- program constants --------------------------- *)

\* for (turn = 1; turn <= 4; turn++)
MaxTurns == 4

\* Math.floor(Math.random() * 6) + 1
DieFaces == 1..6

Min(a, b) == IF a < b THEN a ELSE b
Max(a, b) == IF a > b THEN a ELSE b

(* -------------------- IEEE 754 double arithmetic ----------------------- *)

(* A JavaScript number is an IEEE 754 double: the result of an operation   *)
(* is its exact result rounded to 53 significant bits, ties to the even    *)
(* mantissa.  A natural number of any size is a sequence of limbs, least   *)
(* significant first, each in 0..LimbBase - 1; a double other than 0 is    *)
(* [m |-> M, e |-> e], the value M * 2^e with 2^52 <= M < 2^53.  Only      *)
(* doubles >= 0 are needed.                                                *)

\* The significant bits of a double.
MantissaBits == 53

\* The bits of a limb: the product of two limbs fits a 32-bit integer.
LimbBits == 13

Pow2(n) == 2^n
LimbBase == Pow2(LimbBits)
MantissaLimbs == (MantissaBits + LimbBits - 1) \div LimbBits

\* Limb j of x, 0 beyond its ends.
Limb(x, j) == IF j \in 1..Len(x) THEN x[j] ELSE 0

\* x on exactly n limbs.
Fit(x, n) == [j \in 1..n |-> Limb(x, j)]

\* Bit i of x, bit 0 the least significant.
BitAt(x, i) == (Limb(x, i \div LimbBits + 1) \div Pow2(i % LimbBits)) % 2

\* The number of bits of x up to its leading 1; 0 for 0.
BitLength(x) ==
    LET used == {j \in 1..Len(x) : x[j] # 0}
    IN  IF used = {} THEN 0
        ELSE LET top == CHOOSE j \in used : \A k \in used : k <= j
                 b == CHOOSE i \in 0..(LimbBits - 1) :
                          Pow2(i) <= x[top] /\ x[top] < Pow2(i + 1)
             IN  LimbBits * (top - 1) + b + 1

\* floor(x / 2^s)
ShiftRight(x, s) ==
    LET a == s \div LimbBits
        b == s % LimbBits
    IN  [j \in 1..Max(0, Len(x) - a) |->
            (Limb(x, j + a) \div Pow2(b))
            + (Limb(x, j + a + 1) % Pow2(b)) * Pow2(LimbBits - b)]

\* x * 2^s
ShiftLeft(x, s) ==
    LET a == s \div LimbBits
        b == s % LimbBits
    IN  [j \in 1..(Len(x) + a + 1) |->
            (Limb(x, j - a) % Pow2(LimbBits - b)) * Pow2(b)
            + (Limb(x, j - a - 1) \div Pow2(LimbBits - b))]

\* The bits of x below bit s are all 0.
LowBitsZero(x, s) == \A i \in 0..(s - 1) : BitAt(x, i) = 0

RECURSIVE AddFrom(_, _, _, _)
AddFrom(x, y, j, carry) ==
    IF j > Max(Len(x), Len(y))
    THEN IF carry = 0 THEN <<>> ELSE <<carry>>
    ELSE LET t == Limb(x, j) + Limb(y, j) + carry
         IN  <<t % LimbBase>> \o AddFrom(x, y, j + 1, t \div LimbBase)

\* x + y
Add(x, y) == AddFrom(x, y, 1, 0)

RECURSIVE SubFrom(_, _, _, _)
SubFrom(x, y, j, borrow) ==
    IF j > Len(x) THEN <<>>
    ELSE LET t == Limb(x, j) - Limb(y, j) - borrow
         IN  <<t % LimbBase>> \o SubFrom(x, y, j + 1, IF t < 0 THEN 1 ELSE 0)

\* x - y, for x >= y
Sub(x, y) == SubFrom(x, y, 1, 0)

RECURSIVE ColumnSum(_, _, _, _)
ColumnSum(x, y, j, a) ==
    IF a > Len(x) THEN 0
    ELSE x[a] * Limb(y, j - a + 1) + ColumnSum(x, y, j, a + 1)

RECURSIVE MulFrom(_, _, _, _)
MulFrom(x, y, j, carry) ==
    IF j > Len(x) + Len(y) THEN <<>>
    ELSE LET t == ColumnSum(x, y, j, 1) + carry
         IN  <<t % LimbBase>> \o MulFrom(x, y, j + 1, t \div LimbBase)

\* x * y, for x of at most MantissaLimbs limbs
Mul(x, y) == MulFrom(x, y, 1, 0)

RECURSIVE DivFrom(_, _, _, _)
DivFrom(x, d, j, r) ==
    IF j = 0 THEN [q |-> <<>>, r |-> r]
    ELSE LET cur == r * LimbBase + x[j]
             rest == DivFrom(x, d, j - 1, cur % d)
         IN  [q |-> Append(rest.q, cur \div d), r |-> rest.r]

\* [q |-> floor(x / d), r |-> x mod d], for a small d > 0
DivSmall(x, d) == DivFrom(x, d, Len(x), 0)

\* x < y, for x and y on the same number of limbs
Less(x, y) ==
    \E j \in 1..Len(x) :
        /\ x[j] < y[j]
        /\ \A i \in (j + 1)..Len(x) : x[i] = y[i]

\* The double 0.
FZero == [m |-> Fit(<<>>, MantissaLimbs), e |-> 0]

\* The double nearest to n * 2^e (to n * 2^e plus a positive amount below
\* 2^e when `inexact`), ties to even.
FRound(n, e, inexact) ==
    LET len == BitLength(n)
        s == len - MantissaBits
    IN  IF len = 0 THEN FZero
        ELSE IF s <= 0
        THEN [m |-> Fit(ShiftLeft(n, 0 - s), MantissaLimbs), e |-> e + s]
        ELSE LET q == ShiftRight(n, s)
                 half == BitAt(n, s - 1) = 1
                 sticky == inexact \/ ~LowBitsZero(n, s - 1)
                 up == half /\ (sticky \/ BitAt(q, 0) = 1)
                 r == IF up THEN Add(q, <<1>>) ELSE q
             IN  IF BitLength(r) > MantissaBits
                 THEN [m |-> Fit(ShiftRight(r, 1), MantissaLimbs), e |-> e + s + 1]
                 ELSE [m |-> Fit(r, MantissaLimbs), e |-> e + s]

\* The double of a small integer n >= 0.
FFromInt(n) == FRound(<<n>>, 0, FALSE)

\* a / b for small integers a >= 0 and b > 0
FDivInt(a, b) ==
    LET d == DivSmall(ShiftLeft(<<a>>, 2 * MantissaBits), b)
    IN  FRound(d.q, 0 - 2 * MantissaBits, d.r # 0)

\* x * y
FMul(x, y) == FRound(Mul(x.m, y.m), x.e + y.e, FALSE)

\* 1 - x, for 0 < x < 1
FOneMinus(x) == FRound(Sub(ShiftLeft(<<1>>, 0 - x.e), x.m), x.e, FALSE)

\* x > y
FGreater(x, y) ==
    IF x = FZero THEN FALSE
    ELSE IF y = FZero THEN TRUE
    ELSE x.e > y.e \/ (x.e = y.e /\ Less(y.m, x.m))

(* --------------------- Core probability functions ---------------------- *)

\* getSuccessChance without the clamp of targets below 2.
getSuccessChance_noClamp(target) ==
    IF target > 6 THEN FDivInt(1, 6) ELSE FDivInt(6 - target + 1, 6)

\* getSuccessChance(target)
getSuccessChance(target) ==
    IF target > 6 THEN FDivInt(1, 6)
    ELSE LET t == IF target < 2 THEN 2 ELSE target
         IN  FDivInt(6 - t + 1, 6)

(* One iteration of the dice loop of simulateHitRolls: the counters after   *)
(* the die shows `roll`.                                                    *)
HitRollStep(acc, roll, target) ==
    IF roll = 1 THEN acc
    ELSE IF roll = 6
         THEN [successes |-> acc.successes + 1, sixes |-> acc.sixes + 1]
         ELSE IF roll >= target
              THEN [successes |-> acc.successes + 1, sixes |-> acc.sixes]
              ELSE acc

RECURSIVE HitRollLoop(_, _)
HitRollLoop(numDice, target) ==
    IF numDice <= 0 THEN {[successes |-> 0, sixes |-> 0]}
    ELSE {HitRollStep(acc, roll, target) :
              acc \in HitRollLoop(numDice - 1, target), roll \in DieFaces}

\* simulateHitRolls(numDice, quality, modifier): every {successes, sixes} the
\* dice can give.
simulateHitRolls(numDice, quality, modifier) ==
    HitRollLoop(numDice, quality - modifier)

DefenseRollStep(successes, roll, target) ==
    IF roll = 1 THEN successes
    ELSE IF roll = 6 THEN successes + 1
         ELSE IF roll >= target THEN successes + 1 ELSE successes

RECURSIVE DefenseRollLoop(_, _)
DefenseRollLoop(numDice, target) ==
    IF numDice <= 0 THEN {0}
    ELSE {DefenseRollStep(s, roll, target) :
              s \in DefenseRollLoop(numDice - 1, target), roll \in DieFaces}

\* simulateDefenseRolls(numDice, defense, ap): every number of saves the dice
\* can give.
simulateDefenseRolls(numDice, defense, ap) ==
    DefenseRollLoop(numDice, defense + ap)

\* calculateHits({weaponProfile, attackerStats, numModels}): every {hits, ap}.
calculateHits(weaponProfile, attackerStats, numModels) ==
    LET totalDice == numModels * weaponProfile.Attacks
        Bonus(hitResults) ==
            IF weaponProfile.Predator /\ hitResults.sixes > 0
            THEN {b.successes :
                     b \in simulateHitRolls(hitResults.sixes,
                                            attackerStats.quality,
                                            attackerStats.Modifier)}
            ELSE {0}
    IN  UNION {{[hits |-> hitResults.successes
                          + (IF weaponProfile.Furious THEN hitResults.sixes ELSE 0)
                          + bonus,
                 ap |-> weaponProfile.AP] : bonus \in Bonus(hitResults)} :
               hitResults \in simulateHitRolls(totalDice, attackerStats.quality,
                                               attackerStats.Modifier)}

\* if (weaponProfile.Deadly) totalWounds *= weaponProfile.Deadly
ApplyDeadly(wounds, weaponProfile) ==
    IF weaponProfile.Deadly # 0 THEN wounds * weaponProfile.Deadly ELSE wounds

\* Array.prototype.find on a weapon list: the index of the first weapon that
\* passes the callback (`passing` is the set of weapons that pass it), 0 if
\* none does.
find(weapons, passing) ==
    LET hits == {i \in 1..Len(weapons) : weapons[i] \in passing}
    IN  IF hits = {} THEN 0 ELSE CHOOSE i \in hits : \A j \in hits : i <= j

\* The elements of an array.
Elements(array) == {array[i] : i \in 1..Len(array)}

\* The fallback { Attacks: 1, AP: 0 } of meleeResolution and
\* estimateMeleeEffectiveness; its other fields are undefined.
DefaultMeleeWeapon ==
    [name |-> "", Range |-> 0, Attacks |-> 1, AP |-> 0,
     Furious |-> FALSE, Predator |-> FALSE, Deadly |-> 0]

\* w => w.Range === 0 and (w) => w.Range > 0: the weapons that pass.
IsMelee(weapons) == {w \in Elements(weapons) : w.Range = 0}
IsRanged(weapons) == {w \in Elements(weapons) : w.Range > 0}

\* unit.weapons.find(w => w.Range === 0) || { Attacks: 1, AP: 0 }
MeleeWeapon(unit) ==
    LET i == find(unit.weapons, IsMelee(unit.weapons))
    IN  IF i = 0 THEN DefaultMeleeWeapon ELSE unit.weapons[i]

\* EffectiveStats without the fatigue penalty.
EffectiveStats_noFatigue(unit) == unit

\* { ...unit, quality: unit.hasFoughtInMeleeThisTurn ? 6 : unit.quality }
EffectiveStats(unit) ==
    [unit EXCEPT !.quality = IF unit.hasFoughtInMeleeThisTurn THEN 6 ELSE unit.quality]

\* WoundsFrom with the subtraction the wrong way round (saves - hits).
WoundsFrom_swapped(hitsSet, defense, weaponProfile) ==
    UNION {{ApplyDeadly(saves - h.hits, weaponProfile) :
               saves \in simulateDefenseRolls(h.hits, defense, h.ap)} :
           h \in hitsSet}

\* hits - saves, times Deadly: every number of wounds a side can suffer from
\* the hit results `hitsSet` of the other side's weapon.
WoundsFrom(hitsSet, defense, weaponProfile) ==
    UNION {{ApplyDeadly(h.hits - saves, weaponProfile) :
               saves \in simulateDefenseRolls(h.hits, defense, h.ap)} :
           h \in hitsSet}

\* rangedAttack({...}): every result {inRange, totalWounds}.
rangedAttack(weaponProfile, attackerStats, numModels, targetStats, distanceToTarget) ==
    IF distanceToTarget > weaponProfile.Range
    THEN {[inRange |-> FALSE, totalWounds |-> 0]}
    ELSE {[inRange |-> TRUE, totalWounds |-> totalWounds] :
             totalWounds \in WoundsFrom(calculateHits(weaponProfile, attackerStats, numModels),
                                        targetStats.defense, weaponProfile)}

\* meleeResolution({attacker, defender}): every
\* {totalWoundsToDefender, totalWoundsToAttacker}.  The four batches of dice
\* are independent, so every pair of the two sides' wounds can occur.
meleeResolution(att, def) ==
    LET attackerWeapon == MeleeWeapon(att)
        defenderWeapon == MeleeWeapon(def)
        attackerHits == calculateHits(attackerWeapon, EffectiveStats(att), att.numModels)
        defenderHits == calculateHits(defenderWeapon, EffectiveStats(def), def.numModels)
    IN  {[totalWoundsToDefender |-> woundsToDefender,
          totalWoundsToAttacker |-> woundsToAttacker] :
            woundsToDefender \in WoundsFrom(attackerHits, def.defense, attackerWeapon),
            woundsToAttacker \in WoundsFrom(defenderHits, att.defense, defenderWeapon)}

\* MoraleVerdict with <= for the half-strength comparison.
MoraleVerdict_atHalfRetreats(passedMorale, unit, originalNumModels) ==
    IF passedMorale THEN "PASS"
    ELSE IF 2 * unit.numModels <= originalNumModels THEN "RETREAT" ELSE "SHAKEN"

\* The verdict of resolvePostCombatMorale once the dice are known.
MoraleVerdict(passedMorale, unit, originalNumModels) ==
    IF passedMorale THEN "PASS"
    ELSE IF 2 * unit.numModels < originalNumModels THEN "RETREAT" ELSE "SHAKEN"

\* FirstRollPasses as an attack roll: a natural 1 fails, a natural 6 passes.
FirstRollPasses_attackRoll(roll, unit) ==
    roll # 1 /\ (roll = 6 \/ roll >= unit.quality)

\* (Math.floor(Math.random() * 6) + 1) >= unit.quality
FirstRollPasses(roll, unit) == roll >= unit.quality

\* The dice resolvePostCombatMorale can roll: <<first roll, second roll>>,
\* the second roll 0 when the function makes none.
MoraleRolls(unit) ==
    {<<roll1, IF ~FirstRollPasses(roll1, unit) /\ "Fearless" \in unit.specialRules
              THEN roll2 ELSE 0>> :
        roll1 \in DieFaces, roll2 \in DieFaces}

\* passedMorale of resolvePostCombatMorale once the dice are known.
PassedMorale(rolls, unit) ==
    IF FirstRollPasses(rolls[1], unit) THEN TRUE
    ELSE IF "Fearless" \in unit.specialRules THEN rolls[2] >= 4
         ELSE FALSE

\* resolvePostCombatMorale with a verdict that the dice do not decide: a
\* failed test gives SHAKEN or RETREAT whatever the model count.
resolvePostCombatMorale_anyVerdict(unit, originalNumModels) ==
    {[rolls |-> rolls, verdict |-> verdict] :
        rolls \in MoraleRolls(unit), verdict \in {"PASS", "SHAKEN", "RETREAT"}}

\* resolvePostCombatMorale(unit, originalNumModels): every verdict the one or
\* two dice can give, with the dice that give it.
resolvePostCombatMorale(unit, originalNumModels) ==
    {[rolls |-> rolls,
      verdict |-> MoraleVerdict(PassedMorale(rolls, unit), unit, originalNumModels)] :
        rolls \in MoraleRolls(unit)}

\* One side of estimateMeleeEffectiveness: the expected wounds of `dice`
\* attacks that hit on hitTarget against a defense roll on saveTarget,
\*   dice * getSuccessChance(hitTarget) * (1 - getSuccessChance(saveTarget)).
expectedWounds(dice, hitTarget, saveTarget) ==
    FMul(FMul(FFromInt(dice), getSuccessChance(hitTarget)),
         FOneMinus(getSuccessChance(saveTarget)))

\* The values of expectedWounds on the units of the model (at most two
\* attacks a model, one-digit quality and defense, AP of at most 1),
\* computed once.
EstimateDice == 0..(2 * Max(MaxModels, ScenarioModels))
EstimateTargets == 0..10
EstimateTable ==
    [dice \in EstimateDice, hitTarget \in EstimateTargets,
     saveTarget \in EstimateTargets |->
        expectedWounds(dice, hitTarget, saveTarget)]

\* estimateMeleeEffectiveness(unit, opponent)
estimateMeleeEffectiveness(unit, opponent) ==
    LET unitWeapon == MeleeWeapon(unit)
        opponentWeapon == MeleeWeapon(opponent)
        unitQuality == IF unit.hasFoughtInMeleeThisTurn THEN 6 ELSE unit.quality
        opponentQuality ==
            IF opponent.hasFoughtInMeleeThisTurn THEN 6 ELSE opponent.quality
    IN  [expectedWoundsOnOpponent |->
             EstimateTable[unit.numModels * unitWeapon.Attacks, unitQuality,
                           opponent.defense + unitWeapon.AP],
         expectedWoundsOnUnit |->
             EstimateTable[opponent.numModels * opponentWeapon.Attacks,
                           opponentQuality, unit.defense + opponentWeapon.AP]]

\* decideAction({attacker, opponent, distanceToTarget})
decideAction(unit, opponent, distanceToTarget) ==
    IF unit.shaken THEN "idle"
    ELSE IF distanceToTarget = 0
    THEN LET e == estimateMeleeEffectiveness(unit, opponent)
         IN  IF FGreater(e.expectedWoundsOnUnit, e.expectedWoundsOnOpponent)
             THEN "advance" ELSE "fight"
    ELSE LET chargeRange == IF unit.chargeRange # 0 THEN unit.chargeRange ELSE 12
             advanceRange == IF unit.advanceRange # 0 THEN unit.advanceRange ELSE 6
             r == find(unit.weapons, IsRanged(unit.weapons))
             canCharge == distanceToTarget <= chargeRange
             canShootHold == r # 0 /\ distanceToTarget <= unit.weapons[r].Range
             canShootAdvance ==
                 r # 0 /\ distanceToTarget <= unit.weapons[r].Range + advanceRange
         IN  IF canCharge THEN "charge"
             ELSE IF canShootHold THEN "hold"
             ELSE IF canShootAdvance THEN "advance"
             ELSE "rush"

(* ------------------------------ inputs --------------------------------- *)

Weapon(name, range, attacks, ap, furious, predator, deadly) ==
    [name |-> name, Range |-> range, Attacks |-> attacks, AP |-> ap,
     Furious |-> furious, Predator |-> predator, Deadly |-> deadly]

Rifle  == Weapon("Rifle", 24, 1, 0, FALSE, FALSE, 0)
Pistol == Weapon("Pistol", 12, 1, 0, FALSE, FALSE, 0)
Blade  == Weapon("Blade", 0, 2, 1, TRUE, FALSE, 0)
Claw   == Weapon("Claw", 0, 1, 0, FALSE, TRUE, 2)

\* A caller's unit record, as parseUnitBlock builds it plus the optional
\* fields the simulator reads (toughValue and Modifier; 0 stands for absent).
Unit(name, numModels, quality, defense, toughValue, specialRules, weapons) ==
    [name |-> name, numModels |-> numModels, quality |-> quality,
     defense |-> defense, toughValue |-> toughValue, Modifier |-> 0,
     specialRules |-> specialRules, weapons |-> weapons]

ModelCounts == 1..MaxModels

Units(name) ==
    UNION {{Unit(name, n, 4, 5, 0, {}, <<Rifle>>),
            Unit(name, n, 3, 4, 0, {"Fast", "Fearless"}, <<Blade>>),
            Unit(name, n, 5, 3, 2, {"Slow"}, <<Pistol, Rifle, Claw>>)} :
           n \in ModelCounts}

StartingDistances == {0, 16, 30}

(* --------------------------- the heap ---------------------------------- *)

\* The parameters unitA and unitB: references to the caller's records.
unitA == "unitA"
unitB == "unitB"

Store(h, ref, value) ==
    [r \in DOMAIN h \cup {ref} |-> IF r = ref THEN value ELSE h[r]]

SetField(h, ref, field, value) ==
    Store(h, ref, [f \in DOMAIN h[ref] \cup {field} |->
                      IF f = field THEN value ELSE h[ref][f]])

\* cloneUnit returning the unit it was given instead of a new object.
cloneUnitRef_alias(unit, fresh) == unit

\* The object literal of cloneUnit is a new object: the clone's reference is
\* fresh, never the reference of the unit it copies.
cloneUnitRef(unit, fresh) == fresh

\* cloneUnit(unit): the fields of the clone.
cloneUnit(unit) ==
    [f \in DOMAIN unit \cup {"originalNumModels", "shaken", "hasFoughtInMeleeThisTurn"} |->
        CASE f = "numModels" -> unit.numModels
          [] f = "originalNumModels" -> unit.numModels
          [] f = "shaken" -> FALSE
          [] f = "hasFoughtInMeleeThisTurn" -> FALSE
          [] f = "weapons" -> [i \in 1..Len(unit.weapons) |-> unit.weapons[i]]
          [] OTHER -> unit[f]]

\* Advance ranges beyond the charge ranges: twice 16, 8 and 12.
advanceRangeOf_beyondCharge(unit) ==
    IF "Fast" \in unit.specialRules THEN 32
    ELSE IF "Slow" \in unit.specialRules THEN 16 ELSE 24

\* attacker.advanceRange = attackerIsFast ? 8 : attackerIsSlow ? 4 : 6
advanceRangeOf(unit) ==
    IF "Fast" \in unit.specialRules THEN 8
    ELSE IF "Slow" \in unit.specialRules THEN 4 ELSE 6

\* attacker.chargeRange = attackerIsFast ? 16 : attackerIsSlow ? 8 : 12
chargeRangeOf(unit) ==
    IF "Fast" \in unit.specialRules THEN 16
    ELSE IF "Slow" \in unit.specialRules THEN 8 ELSE 12

\* const attacker = cloneUnit(unitA), followed by the two range assignments.
MakeCombatant(h, unit, fresh) ==
    LET ref == cloneUnitRef(unit, fresh)
        h1 == Store(h, ref, cloneUnit(h[unit]))
        h2 == SetField(h1, ref, "advanceRange", advanceRangeOf(h1[ref]))
    IN  SetField(h2, ref, "chargeRange", chargeRangeOf(h2[ref]))

(* --------------------------- the log ------------------------------------ *)

\* `log` holds the lines pushed since the header line of the current turn,
\* the tail of the code's log array.  The code only pushes to the array and
\* reads it nowhere, so the lines of earlier turns influence no step; they
\* are dropped when a turn starts.
\* One log line: its kind and the name it starts with, a unit's or, in the
\* line of a shot, the weapon's (the numbers the code interpolates into the
\* line are left out).
Entry(kind, name) == [kind |-> kind, name |-> name]

\* `meleeResult` holds the result of the melee round of the current unitActs
\* call (the const meleeResult of handleMeleeRound, with the unit passed as
\* attacker); NoMelee when that call resolved no melee.
NoMelee == [unit1 |-> "none", totalWoundsToDefender |-> 0, totalWoundsToAttacker |-> 0]

(* ----------------------------- Init ------------------------------------ *)

\* The state when the turn loop is entered: clones made, ranges set,
\* currentDistance = startingDistance, log empty, turn = 1.
InitWith(uA, uB, distance, first) ==
    /\ input = [unitA |-> uA, unitB |-> uB]
    /\ startingDistance = distance
    /\ attackerFirst = first
    /\ attacker = cloneUnitRef(unitA, "attacker")
    /\ defender = cloneUnitRef(unitB, "defender")
    /\ heap = MakeCombatant(MakeCombatant([r \in {unitA, unitB} |->
                                              IF r = unitA THEN uA ELSE uB],
                                          unitA, "attacker"),
                            unitB, "defender")
    /\ currentDistance = distance
    /\ turn = 1
    /\ log = <<>>
    /\ pc = "loopHead"
    /\ slot = "first"
    /\ chargeOccurred = FALSE
    /\ loser = "none"
    /\ meleeResult = NoMelee

\* `call` holds one application of a function of the file taken on its own:
\* its name, its arguments and, once applied, its result.  During an
\* engagement no function is applied that way.
NoCall == [fn |-> "none", applied |-> FALSE]

Init ==
    /\ \E uA \in Units("A"), uB \in Units("B"),
          distance \in StartingDistances, first \in BOOLEAN :
           InitWith(uA, uB, distance, first)
    /\ call = NoCall

(* --------------------------- the turn loop ------------------------------ *)

\* LoopContinues with one turn too many.
LoopContinues_oneMore(t) == t <= MaxTurns + 1

\* turn <= 4
LoopContinues(t) == t <= MaxTurns

\* if (attacker.numModels <= 0 || defender.numModels <= 0) break
SomeoneDestroyed ==
    heap[attacker].numModels <= 0 \/ heap[defender].numModels <= 0

\* The unit that acts in the current slot and its opponent.
FirstUnit == IF attackerFirst THEN attacker ELSE defender
SecondUnit == IF attackerFirst THEN defender ELSE attacker
ActingUnit == IF slot = "first" THEN FirstUnit ELSE SecondUnit
Opponent == IF slot = "first" THEN SecondUnit ELSE FirstUnit

\* MayAct without the !chargeOccurred test of the second slot.
MayAct_ignoresCharge == heap[ActingUnit].numModels > 0

\* if (X.numModels > 0) chargeOccurred = unitActs(X, Y)
\* if (Y.numModels > 0 && !chargeOccurred) unitActs(Y, X)
MayAct ==
    IF slot = "first" THEN heap[ActingUnit].numModels > 0
    ELSE heap[ActingUnit].numModels > 0 /\ ~chargeOccurred

\* Finish without the turn++ of the for statement.
Finish_noIncrement ==
    IF slot = "first"
    THEN pc' = "act" /\ slot' = "second" /\ turn' = turn
    ELSE pc' = "loopHead" /\ slot' = "first" /\ turn' = turn

\* What follows the current slot: the second slot, or turn++ and the loop head.
Finish ==
    IF slot = "first"
    THEN pc' = "act" /\ slot' = "second" /\ turn' = turn
    ELSE pc' = "loopHead" /\ slot' = "first" /\ turn' = turn + 1

Decision == decideAction(heap[ActingUnit], heap[Opponent], currentDistance)

\* The loop exits because turn > 4.
LoopExit ==
    /\ pc = "loopHead"
    /\ ~LoopContinues(turn)
    /\ pc' = "done"
    /\ UNCHANGED <<call, input, startingDistance, attackerFirst, heap, attacker, defender,
                   currentDistance, turn, log, slot, chargeOccurred, loser, meleeResult>>

\* The break at the head of the loop body.
LoopBreak ==
    /\ pc = "loopHead"
    /\ LoopContinues(turn)
    /\ SomeoneDestroyed
    /\ pc' = "done"
    /\ UNCHANGED <<call, input, startingDistance, attackerFirst, heap, attacker, defender,
                   currentDistance, turn, log, slot, chargeOccurred, loser, meleeResult>>

\* The head of the loop body: the turn line of the log (which starts the
\* tail kept in `log`), both fatigue flags cleared, chargeOccurred = false.
TurnStart ==
    /\ pc = "loopHead"
    /\ LoopContinues(turn)
    /\ ~SomeoneDestroyed
    /\ log' = <<Entry("turn", "")>>
    /\ heap' = [heap EXCEPT ![attacker].hasFoughtInMeleeThisTurn = FALSE,
                            ![defender].hasFoughtInMeleeThisTurn = FALSE]
    /\ chargeOccurred' = FALSE
    /\ pc' = "act"
    /\ slot' = "first"
    /\ meleeResult' = NoMelee
    /\ UNCHANGED <<call, input, startingDistance, attackerFirst, attacker, defender,
                   currentDistance, turn, loser>>

\* The guard of a slot is false: the unit does not act.
SkipAction ==
    /\ pc = "act"
    /\ ~MayAct
    /\ Finish
    /\ meleeResult' = NoMelee
    /\ UNCHANGED <<call, input, startingDistance, attackerFirst, heap, attacker, defender,
                   currentDistance, log, chargeOccurred, loser>>

\* Idle that leaves the shaken flag set.
Idle_keepsShaken ==
    /\ pc = "act"
    /\ MayAct
    /\ Decision = "idle"
    /\ log' = Append(log, Entry("idle", heap[ActingUnit].name))
    /\ heap' = heap
    /\ Finish
    /\ meleeResult' = NoMelee
    /\ UNCHANGED <<call, input, startingDistance, attackerFirst, attacker, defender,
                   currentDistance, chargeOccurred, loser>>

\* unitActs, decision 'idle'.
Idle ==
    /\ pc = "act"
    /\ MayAct
    /\ Decision = "idle"
    /\ log' = Append(log, Entry("idle", heap[ActingUnit].name))
    /\ heap' = [heap EXCEPT ![ActingUnit].shaken = FALSE]
    /\ Finish
    /\ meleeResult' = NoMelee
    /\ UNCHANGED <<call, input, startingDistance, attackerFirst, attacker, defender,
                   currentDistance, chargeOccurred, loser>>

\* unitActs, decision 'rush'.
Rush ==
    /\ pc = "act"
    /\ MayAct
    /\ Decision = "rush"
    /\ LET rushDist == heap[ActingUnit].chargeRange
       IN  /\ currentDistance' = Max(0, currentDistance - rushDist)
           /\ log' = Append(log, Entry("rush", heap[ActingUnit].name))
    /\ Finish
    /\ meleeResult' = NoMelee
    /\ UNCHANGED <<call, input, startingDistance, attackerFirst, heap, attacker, defender,
                   chargeOccurred, loser>>

\* Math.floor(wounds / (unit.toughValue || 1))
KillsFrom(wounds, unit) ==
    wounds \div (IF unit.toughValue # 0 THEN unit.toughValue ELSE 1)

\* ModelsAfterMelee without the Math.max(0, ...) clamp.
ModelsAfterMelee_unclamped(numModels, kills) == numModels - kills

\* unit.numModels = Math.max(0, unit.numModels - kills)
ModelsAfterMelee(numModels, kills) == Max(0, numModels - kills)

\* LoserOf with >= for the first comparison: a draw counts as unit2's loss.
LoserOf_drawLoses(result, unit1, unit2) ==
    IF result.totalWoundsToDefender >= result.totalWoundsToAttacker THEN unit2
    ELSE unit1

\* The side that lost a melee round, "none" on a draw (unit1 is the unit
\* passed as attacker to meleeResolution).
LoserOf(result, unit1, unit2) ==
    IF result.totalWoundsToDefender > result.totalWoundsToAttacker THEN unit2
    ELSE IF result.totalWoundsToAttacker > result.totalWoundsToDefender THEN unit1
    ELSE "none"

\* The state handleMeleeRound(unit1, unit2) leaves when the dice give
\* `result`, up to the choice of the loser: both fatigue flags are set, the
\* kills are applied and logged, and the loser is chosen.  `loser` is the
\* unit that must test its morale (the loser, if it still has models), else
\* "none".
MeleeOutcome(result, unit1, unit2, logBefore) ==
    LET killsOnUnit2 == KillsFrom(result.totalWoundsToDefender, heap[unit2])
        killsOnUnit1 == KillsFrom(result.totalWoundsToAttacker, heap[unit1])
        after == [heap EXCEPT
                    ![unit1].hasFoughtInMeleeThisTurn = TRUE,
                    ![unit2].hasFoughtInMeleeThisTurn = TRUE,
                    ![unit2].numModels = ModelsAfterMelee(@, killsOnUnit2),
                    ![unit1].numModels = ModelsAfterMelee(@, killsOnUnit1)]
        log1 == Append(logBefore, Entry("meleeResult", heap[unit1].name))
        l == LoserOf(result, unit1, unit2)
        tested == l # "none" /\ after[l].numModels > 0
    IN  [heap |-> after,
         meleeResult |-> [unit1 |-> unit1,
                          totalWoundsToDefender |-> result.totalWoundsToDefender,
                          totalWoundsToAttacker |-> result.totalWoundsToAttacker],
         loser |-> IF tested THEN l ELSE "none",
         log |-> IF tested THEN Append(log1, Entry("lostCombat", heap[l].name))
                 ELSE IF l = "none" THEN Append(log1, Entry("draw", ""))
                 ELSE log1]

\* handleMeleeRound(unit1, unit2) up to the morale test: every state the
\* dice of the melee can leave.
handleMeleeRound(unit1, unit2, logBefore) ==
    {MeleeOutcome(result, unit1, unit2, logBefore) :
        result \in meleeResolution(heap[unit1], heap[unit2])}

\* After handleMeleeRound up to the loser: the morale test when a loser must
\* test, else the end of the slot.
AfterMelee(outcome) ==
    IF outcome.loser # "none"
    THEN pc' = "morale" /\ UNCHANGED <<slot, turn>>
    ELSE Finish

\* The 'charge' branch without its move: the melee round is fought at the
\* distance of the decision.
Charge_withoutMove ==
    /\ pc = "act"
    /\ MayAct
    /\ Decision = "charge"
    /\ chargeOccurred' = IF slot = "first" THEN TRUE ELSE chargeOccurred
    /\ \E outcome \in handleMeleeRound(ActingUnit, Opponent,
                          Append(log, Entry("charge", heap[ActingUnit].name))) :
          /\ heap' = outcome.heap
          /\ log' = outcome.log
          /\ loser' = outcome.loser
          /\ meleeResult' = outcome.meleeResult
          /\ AfterMelee(outcome)
    /\ UNCHANGED <<call, input, startingDistance, attackerFirst, attacker, defender,
                   currentDistance>>

\* unitActs, decision 'charge'.
Charge ==
    /\ pc = "act"
    /\ MayAct
    /\ Decision = "charge"
    /\ currentDistance' = 0
    /\ chargeOccurred' = IF slot = "first" THEN TRUE ELSE chargeOccurred
    /\ \E outcome \in handleMeleeRound(ActingUnit, Opponent,
                          Append(log, Entry("charge", heap[ActingUnit].name))) :
          /\ heap' = outcome.heap
          /\ log' = outcome.log
          /\ loser' = outcome.loser
          /\ meleeResult' = outcome.meleeResult
          /\ AfterMelee(outcome)
    /\ UNCHANGED <<call, input, startingDistance, attackerFirst, attacker, defender>>

\* unitActs, decision 'fight'.
Fight ==
    /\ pc = "act"
    /\ MayAct
    /\ Decision = "fight"
    /\ \E outcome \in handleMeleeRound(ActingUnit, Opponent,
                          Append(log, Entry("fight", heap[ActingUnit].name))) :
          /\ heap' = outcome.heap
          /\ log' = outcome.log
          /\ loser' = outcome.loser
          /\ meleeResult' = outcome.meleeResult
          /\ AfterMelee(outcome)
    /\ UNCHANGED <<call, input, startingDistance, attackerFirst, attacker, defender,
                   currentDistance, chargeOccurred>>

\* switch (moraleResult) of handleMeleeRound: the heap it leaves.
MoraleSwitch(moraleResult, unit) ==
    CASE moraleResult = "PASS" -> heap
      [] moraleResult = "SHAKEN" -> [heap EXCEPT ![unit].shaken = TRUE]
      [] moraleResult = "RETREAT" -> [heap EXCEPT ![unit].numModels = 0]

\* The morale test of handleMeleeRound and its switch.
MoraleTest ==
    /\ pc = "morale"
    /\ \E moraleResult \in
            resolvePostCombatMorale(heap[loser], heap[loser].originalNumModels) :
          /\ heap' = MoraleSwitch(moraleResult.verdict, loser)
          /\ log' = Append(log, Entry(moraleResult.verdict, heap[loser].name))
    /\ loser' = "none"
    /\ Finish
    /\ UNCHANGED <<call, input, startingDistance, attackerFirst, attacker, defender,
                   currentDistance, chargeOccurred, meleeResult>>

\* DistanceAfterMove without the adjacent case and without the clamp:
\* an advance always subtracts the advance range.
DistanceAfterMove_alwaysCloses(decision, unit, distance) ==
    IF decision = "advance" THEN distance - unit.advanceRange ELSE distance

\* The distance after the move of a 'hold' or 'advance'.
DistanceAfterMove(decision, unit, distance) ==
    IF decision = "advance"
    THEN IF distance = 0 THEN distance + unit.advanceRange
         ELSE Max(0, distance - unit.advanceRange)
    ELSE distance

\* WeaponToFire with a range that must exceed the distance.
WeaponToFire_beyond(unit, distance) ==
    find(unit.weapons,
         {w \in Elements(unit.weapons) : w.Range > 0 /\ w.Range > distance})

\* unit.weapons.find(w => w.Range > 0 && w.Range >= currentDistance)
WeaponToFire(unit, distance) ==
    find(unit.weapons,
         {w \in Elements(unit.weapons) : w.Range > 0 /\ w.Range >= distance})

\* The state the shot of a 'hold' or 'advance' leaves when the dice give
\* `result`.
ShotOutcome(result, rangedWeapon, opponentRef, logBefore) ==
    LET opponent == heap[opponentRef]
        kills == Min(opponent.numModels, KillsFrom(result.totalWounds, opponent))
    IN  [totalWounds |-> result.totalWounds,
         heap |-> [heap EXCEPT ![opponentRef].numModels = @ - kills],
         log |-> Append(logBefore, Entry("kills", rangedWeapon.name))]

\* The 'hold' / 'advance' branch of unitActs after the move to newDistance:
\* every state the shot can leave, or the one state without a shot when no
\* weapon reaches.
ShootAt(unitRef, opponentRef, newDistance, logBefore) ==
    LET unit == heap[unitRef]
        rangedWeapon == WeaponToFire(unit, newDistance)
    IN  IF rangedWeapon # 0
        THEN {ShotOutcome(result, unit.weapons[rangedWeapon], opponentRef, logBefore) :
                 result \in rangedAttack(unit.weapons[rangedWeapon], unit, unit.numModels,
                                         heap[opponentRef], newDistance)}
        ELSE {[totalWounds |-> 0, heap |-> heap, log |-> logBefore]}

\* The line unitActs logs for the move of a 'hold' or 'advance'.
MoveLine(decision, unit, distance) ==
    Entry(IF decision = "hold" THEN "hold"
          ELSE IF distance = 0 THEN "retreat" ELSE "advance",
          unit.name)

\* unitActs, decision 'hold' or 'advance': the move, then the shot if a
\* weapon reaches.
HoldOrAdvance ==
    /\ pc = "act"
    /\ MayAct
    /\ Decision \in {"hold", "advance"}
    /\ currentDistance' = DistanceAfterMove(Decision, heap[ActingUnit], currentDistance)
    /\ \E outcome \in ShootAt(ActingUnit, Opponent,
                              DistanceAfterMove(Decision, heap[ActingUnit], currentDistance),
                              Append(log, MoveLine(Decision, heap[ActingUnit],
                                                   currentDistance))) :
          /\ heap' = outcome.heap
          /\ log' = outcome.log
    /\ Finish
    /\ meleeResult' = NoMelee
    /\ UNCHANGED <<call, input, startingDistance, attackerFirst, attacker, defender,
                   chargeOccurred, loser>>

Next ==
    \/ TurnStart
    \/ LoopBreak
    \/ LoopExit
    \/ SkipAction
    \/ Idle
    \/ Charge
    \/ Fight
    \/ HoldOrAdvance
    \/ Rush
    \/ MoraleTest

Spec == Init /\ [][Next]_vars

\* The function body runs to its return statement: a synchronous call is
\* never suspended.
FairSpec == Spec /\ WF_vars(Next)

\* The returned record.
Result ==
    [turnsElapsed |-> turn - 1,
     finalDistance |-> currentDistance,
     survivingA |-> heap[attacker].numModels,
     survivingB |-> heap[defender].numModels,
     log |-> log]

TypeOK ==
    /\ pc \in {"loopHead", "act", "morale", "done"}
    /\ slot \in {"first", "second"}
    /\ turn \in 1..(MaxTurns + 1)

(* ------------------------- the rifle scenario -------------------------- *)

\* A unit of quality 4 and defense 5 with one Rifle and no special rule.
ScenarioUnit(name) == Unit(name, ScenarioModels, 4, 5, 0, {}, <<Rifle>>)

\* The starting distance of the command-line entry (24), and distances at
\* which the same two units start adjacent, in charge range and out of
\* every range.
ScenarioDistances == {0, 12, 24, 40}

ScenarioInit ==
    /\ \E distance \in ScenarioDistances, first \in BOOLEAN :
           InitWith(ScenarioUnit("A"), ScenarioUnit("B"), distance, first)
    /\ call = NoCall

\* Engagements of two identical rifle units.
Scenario == ScenarioInit /\ [][Next]_vars

(* ------------------ applications of single functions ------------------- *)

\* The variables of an engagement.
engagement == <<input, startingDistance, attackerFirst, heap, attacker, defender,
                currentDistance, turn, log, pc, slot, chargeOccurred, loser,
                meleeResult>>

\* Q(\d)\+ and D(\d)\+ of parseUnitBlock: a quality and a defense are one
\* digit each.
Digits == 0..9

\* While single functions are applied no engagement runs: its variables
\* stay as the command-line entry would start it.
NoEngagement ==
    InitWith(Unit("A", 1, 4, 5, 0, {}, <<Rifle>>),
             Unit("B", 1, 4, 5, 0, {}, <<Rifle>>), 24, TRUE)

\* The units a morale test is applied to: handleMeleeRound tests a loser
\* that has models left, at most as many as it started with.
MoraleUnits ==
    {Unit("A", n, q, 5, 0, rules, <<Rifle>>) :
        n \in ModelCounts, q \in Digits, rules \in {{}, {"Fearless"}}}

CallMorale ==
    \E unit \in MoraleUnits, originalNumModels \in ModelCounts :
        /\ unit.numModels <= originalNumModels
        /\ call = [fn |-> "resolvePostCombatMorale", applied |-> FALSE,
                   unit |-> unit, originalNumModels |-> originalNumModels]

\* resolvePostCombatMorale(unit, originalNumModels) is applied.
ApplyMorale ==
    /\ call.fn = "resolvePostCombatMorale"
    /\ ~call.applied
    /\ \E out \in resolvePostCombatMorale(call.unit, call.originalNumModels) :
          call' = [fn |-> call.fn, applied |-> TRUE,
                   unit |-> call.unit, originalNumModels |-> call.originalNumModels,
                   rolls |-> out.rolls, result |-> out.verdict]
    /\ UNCHANGED engagement

\* The targets of a roll: a quality less a modifier or a defense plus an AP,
\* and integers beyond both ends of the die.
Targets == (0 - MaxTarget)..MaxTarget

CallSuccessChance ==
    \E target \in Targets :
        call = [fn |-> "getSuccessChance", applied |-> FALSE, target |-> target]

\* getSuccessChance(target) is applied.
ApplySuccessChance ==
    /\ call.fn = "getSuccessChance"
    /\ ~call.applied
    /\ call' = [fn |-> call.fn, applied |-> TRUE, target |-> call.target,
                result |-> getSuccessChance(call.target)]
    /\ UNCHANGED engagement

\* The units decideAction is applied to: clones with their ranges set, with
\* or without a melee weapon of their own, fatigued or not.
DecideUnits(name) ==
    {[MakeCombatant([r \in {unitA} |-> Unit(name, n, q, d, 0, {}, weapons)],
                    unitA, "attacker")["attacker"]
         EXCEPT !.hasFoughtInMeleeThisTurn = fought] :
        n \in ModelCounts, q \in 3..5, d \in 3..5,
        weapons \in {<<Rifle>>, <<Rifle, Blade>>}, fought \in BOOLEAN}

CallDecide ==
    \E unit \in DecideUnits("A"), opponent \in DecideUnits("B"),
       distanceToTarget \in {0, 16} :
        call = [fn |-> "decideAction", applied |-> FALSE, unit |-> unit,
                opponent |-> opponent, distanceToTarget |-> distanceToTarget]

\* decideAction({attacker, opponent, distanceToTarget}) is applied.
ApplyDecide ==
    /\ call.fn = "decideAction"
    /\ ~call.applied
    /\ call' = [fn |-> call.fn, applied |-> TRUE, unit |-> call.unit,
                opponent |-> call.opponent,
                distanceToTarget |-> call.distanceToTarget,
                result |-> decideAction(call.unit, call.opponent,
                                        call.distanceToTarget)]
    /\ UNCHANGED engagement

CallInit ==
    /\ NoEngagement
    /\ \/ CallMorale
       \/ CallSuccessChance
       \/ CallDecide

CallNext ==
    \/ ApplyMorale
    \/ ApplySuccessChance
    \/ ApplyDecide

\* One application of one function to arguments drawn from bounded sets.
Calls == CallInit /\ [][CallNext]_vars

(* ------------------------------ claims ---------------------------------- *)

Last(seq) == seq[Len(seq)]

\* The other unit of the engagement.
OtherUnit(u) == IF u = attacker THEN defender ELSE attacker

\* The log lines that report an action of a unit (as opposed to the outcome
\* of a shot, of a melee round or of a morale test); a shot follows the
\* 'hold', 'advance' or 'retreat' line of the unit that fires.
ActionKinds == {"idle", "charge", "fight", "hold", "advance", "retreat", "rush"}

\* The number of melee rounds the log of the current turn reports.
MeleeRounds == Cardinality({i \in DOMAIN log : log[i].kind = "meleeResult"})

\* A measure of the work left: it is 0 at the return statement and every
\* step of the function lowers it.
Rank ==
    LET turnsLeft == 6 * (MaxTurns + 1 - turn)
    IN  CASE pc = "done" -> 0
          [] pc = "loopHead" -> turnsLeft + 1
          [] pc = "act" /\ slot = "first" -> turnsLeft
          [] pc = "morale" /\ slot = "first" -> turnsLeft - 1
          [] pc = "act" /\ slot = "second" -> turnsLeft - 2
          [] pc = "morale" /\ slot = "second" -> turnsLeft - 3

\* Some step is possible.  The actions that roll dice take any element of
\* the set of states the dice can leave and assign it, so they are enabled
\* exactly when their guard holds and that set is not empty.
CanStep ==
    \/ ENABLED (TurnStart \/ LoopBreak \/ LoopExit \/ SkipAction \/ Idle \/ Rush)
    \/ /\ pc = "morale"
       /\ resolvePostCombatMorale(heap[loser], heap[loser].originalNumModels) # {}
    \/ /\ pc = "act"
       /\ MayAct
       /\ \/ /\ Decision \in {"charge", "fight"}
             /\ handleMeleeRound(ActingUnit, Opponent, log) # {}
          \/ /\ Decision \in {"hold", "advance"}
             /\ ShootAt(ActingUnit, Opponent,
                        DistanceAfterMove(Decision, heap[ActingUnit], currentDistance),
                        log) # {}

\* CanStep is ENABLED Next written so that TLC evaluates it quickly.
CanStepIsEnabledNext == CanStep <=> ENABLED Next

\* C1: the simulator terminates for every pair of units and every sequence of
\* die results (a step is always possible until the return statement, and
\* every step lowers a measure that never goes below 0), and it returns
\* 0 <= turnsElapsed <= 4, survivingA >= 0 and survivingB >= 0.
C1_TerminatesWithinBounds ==
    /\ [][Rank' < Rank]_vars
    /\ [](/\ Rank >= 0
          /\ pc # "done" => CanStep
          /\ pc = "done" => /\ Result.turnsElapsed \in 0..MaxTurns
                            /\ Result.survivingA >= 0
                            /\ Result.survivingB >= 0)

\* C1 witness: the function has returned after all four turns with both
\* units alive.
C1_Witness ==
    /\ pc = "done"
    /\ Result.turnsElapsed = MaxTurns
    /\ Result.survivingA > 0
    /\ Result.survivingB > 0

\* C2 (as claimed): once a unit's model count is 0 nothing more happens (no
\* move, no ranged attack, no melee round, no morale test, no new turn), and
\* an engagement in which nobody is destroyed ends after exactly 4 turns.
C2_NothingAfterDestruction ==
    /\ [][SomeoneDestroyed =>
            /\ heap' = heap
            /\ currentDistance' = currentDistance
            /\ log' = log]_vars
    /\ [](pc = "done" /\ ~SomeoneDestroyed => turn - 1 = MaxTurns)

\* The first-acting unit's decision of the current turn was 'charge': the
\* line after the turn header is its charge line.
FirstCharged == Len(log) >= 2 /\ log[2].kind = "charge"

\* C3: in a turn in which the first-acting unit charges, exactly one melee
\* round is resolved, the distance stays 0 and the second unit takes no
\* action (every action line of the turn names the first unit).
C3_ChargeExclusivity ==
    FirstCharged =>
        /\ MeleeRounds = 1
        /\ currentDistance = 0
        /\ \A i \in DOMAIN log :
              log[i].kind \in ActionKinds => log[i].name = heap[FirstUnit].name

\* C3 witness: the turn of a first-slot charge is over and the second unit,
\* still alive, has not acted.
C3_Witness ==
    /\ FirstCharged
    /\ pc = "loopHead"
    /\ heap[SecondUnit].numModels > 0
    /\ heap[FirstUnit].numModels > 0

\* C4: the caller's records are never changed: at every point of the call
\* unitA and unitB have exactly the fields and values they were passed with.
C4_InputsNeverMutated ==
    /\ heap[unitA] = input.unitA
    /\ heap[unitB] = input.unitB

\* C4 witness: the call has returned, both clones lost models and one clone
\* is shaken.
C4_Witness ==
    /\ pc = "done"
    /\ heap[attacker].numModels < input.unitA.numModels
    /\ heap[defender].numModels < input.unitB.numModels
    /\ heap[attacker].shaken \/ heap[defender].shaken

\* C5: both units' numModels are >= 0 in every state.
C5_ModelsNonNegative ==
    /\ heap[attacker].numModels >= 0
    /\ heap[defender].numModels >= 0

\* C5 witness: a melee round has just inflicted more kills than the unit
\* passed as defender had models (Furious or Deadly wounds), leaving it with 0.
C5_Witness ==
    /\ meleeResult.unit1 # "none"
    /\ LET unit2 == heap[OtherUnit(meleeResult.unit1)]
       IN  /\ unit2.numModels = 0
           /\ KillsFrom(meleeResult.totalWoundsToDefender, unit2) > unit2.originalNumModels

\* C6: no step increases a unit's numModels, and the surviving counts
\* returned are at most the counts passed in.
C6_ModelsOnlyDecrease ==
    [][/\ heap'[attacker].numModels <= heap[attacker].numModels
       /\ heap'[defender].numModels <= heap[defender].numModels
       /\ pc' = "done" => /\ Result'.survivingA <= input.unitA.numModels
                          /\ Result'.survivingB <= input.unitB.numModels]_vars

\* C6 witness: the call has returned and both units lost models to a ranged
\* attack or a melee round.
C6_Witness ==
    /\ pc = "done"
    /\ 0 < Result.survivingA /\ Result.survivingA < input.unitA.numModels
    /\ 0 < Result.survivingB /\ Result.survivingB < input.unitB.numModels

\* C7: currentDistance >= 0 in every state.
C7_DistanceNonNegative == currentDistance >= 0

\* C7 witness: a unit has just retreated out of melee.
C7_Witness ==
    /\ currentDistance > 0
    /\ \E i \in DOMAIN log : log[i].kind = "retreat"

\* C8: a shaken unit whose turn it is to act idles: the step clears its
\* shaken flag and changes nothing else (no other field of either unit, not
\* the distance); a unit that is not shaken never idles, so the action after
\* the skipped one is chosen by the other decision rules.
C8_ShakenIdlesOnce ==
    [][pc = "act" /\ MayAct =>
         IF heap[ActingUnit].shaken
         THEN /\ heap' = [heap EXCEPT ![ActingUnit].shaken = FALSE]
              /\ currentDistance' = currentDistance
              /\ log' = Append(log, Entry("idle", heap[ActingUnit].name))
         ELSE log'[Len(log) + 1].kind # "idle"]_vars

\* C8 witness: a unit has just idled and is no longer shaken, and its
\* opponent is alive.
C8_Witness ==
    /\ Len(log) >= 2
    /\ Last(log).kind = "idle"
    /\ \E u \in {attacker, defender} :
          heap[u].name = Last(log).name /\ ~heap[u].shaken
    /\ ~SomeoneDestroyed

\* C9: a morale test is made only right after a melee round and only against
\* the side that suffered strictly more wounds than it inflicted; it is not
\* followed by a second test and touches only the loser; a melee round in
\* which both sides suffer equal wounds is followed by no test and changes
\* no shaken flag and no model count beyond the kills.
C9_MoraleOnlyForLoser ==
    [][/\ pc' = "morale" =>
              /\ pc = "act"
              /\ meleeResult'.unit1 # "none"
              /\ loser' = IF meleeResult'.totalWoundsToDefender
                               > meleeResult'.totalWoundsToAttacker
                          THEN OtherUnit(meleeResult'.unit1)
                          ELSE meleeResult'.unit1
              /\ meleeResult'.totalWoundsToDefender # meleeResult'.totalWoundsToAttacker
       /\ pc = "morale" => /\ pc' # "morale"
                           /\ heap'[OtherUnit(loser)] = heap[OtherUnit(loser)]
       /\ (/\ pc = "act"
           /\ meleeResult'.unit1 # "none"
           /\ meleeResult'.totalWoundsToDefender = meleeResult'.totalWoundsToAttacker) =>
              /\ pc' # "morale"
              /\ \A u \in {attacker, defender} :
                    /\ heap'[u].shaken = heap[u].shaken
                    /\ heap'[u].numModels =
                          Max(0, heap[u].numModels
                                   - KillsFrom(meleeResult'.totalWoundsToDefender, heap[u]))]_vars

\* C9 witness: a melee round has just ended in a draw with wounds on both
\* sides.
C9_Witness ==
    /\ meleeResult.unit1 # "none"
    /\ meleeResult.totalWoundsToDefender = meleeResult.totalWoundsToAttacker
    /\ meleeResult.totalWoundsToDefender > 0
    /\ pc # "morale"

\* C10: the outcome of a morale test is PASS, which changes nothing, or it
\* is decided by the loser's current numModels against half of its
\* originalNumModels: at or above half the unit becomes shaken and keeps its
\* models, strictly below half its numModels becomes 0; originalNumModels is
\* always the model count the unit was passed in with.
C10_MoraleOutcome ==
    [][/\ pc = "morale" =>
              LET u == heap[loser]
                  verdict == Last(log').kind
              IN  /\ Len(log') = Len(log) + 1
                  /\ verdict \in {"PASS", "SHAKEN", "RETREAT"}
                  /\ verdict = "PASS" => heap' = heap
                  /\ verdict = "SHAKEN" =>
                        /\ 2 * u.numModels >= u.originalNumModels
                        /\ heap' = [heap EXCEPT ![loser].shaken = TRUE]
                  /\ verdict = "RETREAT" =>
                        /\ 2 * u.numModels < u.originalNumModels
                        /\ heap' = [heap EXCEPT ![loser].numModels = 0]
       /\ heap'[attacker].originalNumModels = input.unitA.numModels
       /\ heap'[defender].originalNumModels = input.unitB.numModels]_vars

\* C10 witness: a unit below half strength has just failed its morale test
\* and was destroyed while its opponent lives.
C10_Witness ==
    /\ Len(log) >= 2
    /\ Last(log).kind = "RETREAT"
    /\ \E u \in {attacker, defender} :
          /\ heap[u].name = Last(log).name
          /\ heap[u].numModels = 0
          /\ heap[OtherUnit(u)].numModels > 0

\* C11: the morale roll is a plain threshold test, roll >= quality, for
\* every quality and every roll (a natural 6 does not pass against quality
\* 7 or more, a natural 1 passes against quality 1 or less); a second die is
\* rolled exactly when the first roll fails and the unit is Fearless, and it
\* passes iff it shows 4 or more; the verdict is PASS iff the first roll
\* passes or the second roll is made and passes, otherwise SHAKEN or RETREAT.
C11_MoraleRoll ==
    (call.fn = "resolvePostCombatMorale" /\ call.applied) =>
        LET firstPasses == call.rolls[1] >= call.unit.quality
            secondRolled == call.rolls[2] # 0
        IN  /\ call.rolls[1] \in DieFaces
            /\ secondRolled <=> (~firstPasses /\ "Fearless" \in call.unit.specialRules)
            /\ secondRolled => call.rolls[2] \in DieFaces
            /\ call.result = "PASS" <=> (firstPasses \/ (secondRolled /\ call.rolls[2] >= 4))
            /\ call.result \in {"PASS", "SHAKEN", "RETREAT"}

\* C11 witness: a Fearless unit of quality 7 fails its first roll with a
\* natural 6 and passes with a second roll of 4.
C11_Witness ==
    /\ call.fn = "resolvePostCombatMorale"
    /\ call.applied
    /\ call.unit.quality = 7
    /\ call.rolls = <<6, 4>>
    /\ call.result = "PASS"

\* The decision the priority order gives a unit at a distance > 0 when every
\* ranged weapon of its list counts.
PriorityDecision(unit, distance) ==
    LET ranged == {w \in Elements(unit.weapons) : w.Range > 0}
    IN  IF distance <= unit.chargeRange THEN "charge"
        ELSE IF \E w \in ranged : distance <= w.Range THEN "hold"
        ELSE IF \E w \in ranged : distance <= w.Range + unit.advanceRange
             THEN "advance"
        ELSE "rush"

\* C12 (as claimed): a unit that is not shaken and acts at a distance > 0
\* decides by the priority order charge, hold, advance, rush, where any
\* ranged weapon of its list can justify hold or advance.
C12_DecisionPriority ==
    (/\ pc = "act"
     /\ MayAct
     /\ ~heap[ActingUnit].shaken
     /\ currentDistance > 0) =>
        Decision = PriorityDecision(heap[ActingUnit], currentDistance)

\* The weapons of a unit that reach a distance.
Reaching(unit, distance) ==
    {w \in Elements(unit.weapons) : w.Range > 0 /\ w.Range >= distance}

\* C13 (as claimed): on a 'hold' or 'advance' the unit fires, after the
\* move, its longest-range weapon among those that reach the new distance,
\* if one exists (the line of the shot names the weapon fired), and the
\* kills are at most the opponent's remaining models.
C13_FiresLongestRange ==
    [][(pc = "act" /\ MayAct /\ Decision \in {"hold", "advance"}) =>
          LET unit == heap[ActingUnit]
              reach == Reaching(unit, currentDistance')
          IN  /\ reach # {} <=> Last(log').kind = "kills"
              /\ reach # {} =>
                    \E w \in reach :
                        /\ \A v \in reach : v.Range <= w.Range
                        /\ Last(log').name = w.name
              /\ heap'[Opponent].numModels \in 0..heap[Opponent].numModels]_vars

\* A die of a hit roll made with `stats` that shows `roll` is a success.
DieHits(roll, stats) ==
    HitRollStep([successes |-> 0, sixes |-> 0], roll,
                stats.quality - stats.Modifier).successes = 1

\* Both units' hasFoughtInMeleeThisTurn flags.
FoughtFlags ==
    <<heap[attacker].hasFoughtInMeleeThisTurn, heap[defender].hasFoughtInMeleeThisTurn>>

\* C14: the fatigue flags are cleared when a turn starts, set for both units
\* by every melee round and changed by nothing else, so a unit's flag is set
\* exactly when a melee round was resolved earlier in the turn; with the
\* stats a melee round uses, a die of a unit whose flag is set hits iff it
\* shows 6, and a die of a unit whose flag is clear hits by the attack-roll
\* rule against the unit's own quality.
C14_Fatigue ==
    /\ [][/\ (pc = "loopHead" /\ pc' = "act") => FoughtFlags' = <<FALSE, FALSE>>
          /\ (pc = "act" /\ meleeResult'.unit1 # "none") => FoughtFlags' = <<TRUE, TRUE>>
          /\ (pc = "act" /\ meleeResult'.unit1 = "none") => FoughtFlags' = FoughtFlags
          /\ (pc = "morale" \/ pc' = "done") => FoughtFlags' = FoughtFlags]_vars
    /\ [](\A u \in {attacker, defender} :
            /\ heap[u].hasFoughtInMeleeThisTurn <=> MeleeRounds > 0
            /\ \A roll \in DieFaces :
                  DieHits(roll, EffectiveStats(heap[u])) <=>
                      IF heap[u].hasFoughtInMeleeThisTurn THEN roll = 6
                      ELSE roll # 1 /\ (roll = 6 \/ roll >= heap[u].quality))

\* C14 witness: a second melee round of the same turn has been resolved, in
\* which the fatigued unit that initiated it inflicted wounds.
C14_Witness ==
    /\ MeleeRounds = 2
    /\ meleeResult.unit1 # "none"
    /\ meleeResult.totalWoundsToDefender > 0
    /\ heap[meleeResult.unit1].quality < 6

\* The engagement is the rifle scenario as stated: startingDistance = 24 and
\* attackerFirst = true.
RifleScenario == startingDistance = 24 /\ attackerFirst

\* C15: the rifle scenario terminates (every step lowers Rank and a step is
\* possible until the return statement) after at most 4 turns with both
\* surviving counts in 0..5; a charge leaves the distance 0 and a distance
\* of 0 stays 0, so the final distance is 0 once either unit has charged.
C15_RifleScenario ==
    /\ [][RifleScenario =>
            /\ Rank' < Rank
            /\ Last(log').kind = "charge" => currentDistance' = 0
            /\ (\E i \in DOMAIN log' : log'[i].kind = "charge") => currentDistance' = 0
            /\ currentDistance = 0 => currentDistance' = 0]_vars
    /\ [](RifleScenario =>
            /\ Rank >= 0
            /\ pc # "done" => CanStep
            /\ pc = "done" => /\ Result.turnsElapsed \in 0..4
                              /\ Result.survivingA \in 0..ScenarioModels
                              /\ Result.survivingB \in 0..ScenarioModels)

\* C15 witness: the rifle scenario has returned after 4 turns, both units
\* having lost models.
C15_Witness ==
    /\ RifleScenario
    /\ pc = "done"
    /\ Result.turnsElapsed = 4
    /\ 0 < Result.survivingA /\ Result.survivingA < ScenarioModels
    /\ 0 < Result.survivingB /\ Result.survivingB < ScenarioModels

\* C16: getSuccessChance(t) is 5/6 for t <= 2, (7 - t)/6 for t in 2..6 and
\* 1/6 for t > 6 (each the double nearest to the fraction); so it is neither
\* below 1/6 nor above 5/6, it is within 0..1, and the value for t + 1 is
\* never greater than the value for t.
C16_SuccessChance ==
    (call.fn = "getSuccessChance" /\ call.applied) =>
        LET t == call.target
        IN  /\ t <= 2 => call.result = FDivInt(5, 6)
            /\ t \in 2..6 => call.result = FDivInt(7 - t, 6)
            /\ t > 6 => call.result = FDivInt(1, 6)
            /\ ~FGreater(FDivInt(1, 6), call.result)
            /\ ~FGreater(call.result, FDivInt(5, 6))
            /\ ~FGreater(call.result, FFromInt(1))
            /\ ~FGreater(getSuccessChance(t + 1), call.result)

\* C16 witness: getSuccessChance has been applied to a target below 2, which
\* it clamps.
C16_Witness ==
    /\ call.fn = "getSuccessChance"
    /\ call.applied
    /\ call.target < 2
    /\ call.result = FDivInt(5, 6)

\* The success chance of a roll against target t as a number of sixths.
Sixths(t) == IF t > 6 THEN 1 ELSE IF t < 2 THEN 5 ELSE 7 - t

\* The expected wounds of `unit` on `opponent` in a melee round as a number
\* of 36ths: numModels x attacks x successChance(effective quality)
\* x (1 - successChance(defense + AP)).
ExpectedWounds(unit, opponent) ==
    unit.numModels * MeleeWeapon(unit).Attacks
        * Sixths(IF unit.hasFoughtInMeleeThisTurn THEN 6 ELSE unit.quality)
        * (6 - Sixths(opponent.defense + MeleeWeapon(unit).AP))

\* C17 (as claimed): for a unit that is not shaken at distance 0,
\* decideAction returns 'advance' iff the opponent's expected wounds on the
\* unit strictly exceed the unit's expected wounds on the opponent, and
\* 'fight' otherwise, equality included.
C17_MeleeDecision ==
    (/\ call.fn = "decideAction"
     /\ call.applied
     /\ ~call.unit.shaken
     /\ call.distanceToTarget = 0) =>
        call.result =
            IF ExpectedWounds(call.opponent, call.unit)
                 > ExpectedWounds(call.unit, call.opponent)
            THEN "advance" ELSE "fight"

\* The steps that are possible in the current state, by the guards of the
\* actions.
PossibleSteps ==
    {step \in {"TurnStart", "LoopBreak", "LoopExit", "SkipAction", "Idle",
               "Rush", "Charge", "Fight", "HoldOrAdvance", "MoraleTest"} :
        \/ step = "LoopExit" /\ pc = "loopHead" /\ ~LoopContinues(turn)
        \/ step = "LoopBreak" /\ pc = "loopHead" /\ LoopContinues(turn)
                               /\ SomeoneDestroyed
        \/ step = "TurnStart" /\ pc = "loopHead" /\ LoopContinues(turn)
                               /\ ~SomeoneDestroyed
        \/ step = "SkipAction" /\ pc = "act" /\ ~MayAct
        \/ step = "Idle" /\ pc = "act" /\ MayAct /\ Decision = "idle"
        \/ step = "Rush" /\ pc = "act" /\ MayAct /\ Decision = "rush"
        \/ step = "Charge" /\ pc = "act" /\ MayAct /\ Decision = "charge"
        \/ step = "Fight" /\ pc = "act" /\ MayAct /\ Decision = "fight"
        \/ step = "HoldOrAdvance" /\ pc = "act" /\ MayAct
                                   /\ Decision \in {"hold", "advance"}
        \/ step = "MoraleTest" /\ pc = "morale"}

C19_MeleeOnlyAtZero ==
    [][(pc = "act" /\ meleeResult' # NoMelee) =>
           /\ currentDistance' = 0
           /\ Decision \in {"charge", "fight"}
           /\ Decision = "fight" => currentDistance = 0]_vars

\* C19 witness: in the turn of a retreat from contact the other unit has
\* charged back, and the melee round was resolved at distance 0.
C19_Witness ==
    /\ meleeResult # NoMelee
    /\ currentDistance = 0
    /\ \E i, j \in DOMAIN log :
          i < j /\ log[i].kind = "retreat" /\ log[j].kind = "charge"

\* C20: when the engagement starts at a positive distance, the distance
\* becomes 0 only through a charge.  A closing advance and a rush are decided
\* only beyond the charge range, so what they subtract leaves the distance
\* strictly positive and Math.max(0, ...) returns its second argument.
C20_OnlyChargeCloses ==
    [][startingDistance > 0 =>
           /\ (currentDistance > 0 /\ currentDistance' = 0) =>
                  (pc = "act" /\ Decision = "charge")
           /\ (pc = "act" /\ MayAct /\ currentDistance > 0
                          /\ Decision = "advance") =>
                  /\ currentDistance > heap[ActingUnit].chargeRange
                  /\ currentDistance - heap[ActingUnit].advanceRange > 0
                  /\ currentDistance'
                         = currentDistance - heap[ActingUnit].advanceRange
           /\ (pc = "act" /\ MayAct /\ Decision = "rush") =>
                  /\ currentDistance > heap[ActingUnit].chargeRange
                  /\ currentDistance'
                         = currentDistance - heap[ActingUnit].chargeRange]_vars

\* C20 witness: from a positive starting distance one unit has rushed and the
\* other has advanced in the same turn, and the units are still apart.
C20_Witness ==
    /\ startingDistance > 0
    /\ currentDistance > 0
    /\ \E i, j \in DOMAIN log : log[i].kind = "rush" /\ log[j].kind = "advance"

\* C21: a 'hold' or 'advance' decided at a positive distance always fires.  A
\* weapon that reaches the distance after the move is found, rangedAttack is
\* called within its range (every result has inRange = true) and the line of
\* the shot is logged after the line of the move; a 'hold' or 'advance' that
\* finds no weapon is a retreat from distance 0.
C21_ShotInRange ==
    [][(pc = "act" /\ MayAct /\ Decision \in {"hold", "advance"}) =>
           LET unit == heap[ActingUnit]
               newDistance == DistanceAfterMove(Decision, unit, currentDistance)
               rangedWeapon == WeaponToFire(unit, newDistance)
           IN  /\ currentDistance > 0 =>
                      /\ rangedWeapon # 0
                      /\ \A result \in rangedAttack(unit.weapons[rangedWeapon], unit,
                                                     unit.numModels, heap[Opponent],
                                                     newDistance) : result.inRange
                      /\ Len(log') = Len(log) + 2
                      /\ log'[Len(log')].kind = "kills"
               /\ rangedWeapon = 0 =>
                      /\ currentDistance = 0
                      /\ Decision = "advance"
                      /\ log' = Append(log, Entry("retreat", unit.name))]_vars

\* C21 witness: a unit has closed by an advance and fired, and the distance
\* it fired at is still positive.
C21_Witness ==
    /\ currentDistance > 0
    /\ \E i \in DOMAIN log :
          /\ i + 1 \in DOMAIN log
          /\ log[i].kind = "advance"
          /\ log[i + 1].kind = "kills"

\* The last step was a retreat from distance 0 that found no weapon to fire:
\* the line of the move is the last of the log.
RetreatWithoutShot == log # <<>> /\ log[Len(log)].kind = "retreat"

====
